---- MODULE Spec2Model ----
(***************************************************************************)
(* Model of the AdminTour page (src/unnamed/part_000): the fetch ->        *)
(* normalize -> filter -> paginate pipeline and the UI state around it.    *)
(*                                                                         *)
(* Strings are kept as strings.  The Korean literals of the source are     *)
(* written in ASCII: the free-of-charge marker of line 104 is "muryo",     *)
(* the two error messages of lines 110 and 114 are ERR_EMPTY and ERR_FAIL. *)
(* null (error: string | null) is the string NULL, which is none of the    *)
(* messages.                                                               *)
(***************************************************************************)
EXTENDS Integers, Sequences, FiniteSets, TLC

VARIABLES
    list,            \* useState<TourList[]>([])          line 61
    loading,         \* useState<boolean>(true)           line 62
    error,           \* useState<string | null>(null)     line 63
    filterCategory,  \* line 64
    filterFeeType,   \* line 65
    searchTerm,      \* line 66
    isMobileView,    \* line 68
    viewMode,        \* line 69
    currentPage,     \* line 71
    itemsPerPage,    \* line 72
    mounted,         \* the mount effects (lines 75-137) have run
    inflight,        \* getEventList() calls awaited at line 95, not yet settled
    lastOutcome,     \* how the last settled await of line 95 ended
    lastStep,        \* history: the last operation, the page and viewport it started from
    selectedEvent,   \* useState<TourList | null>(null), line 67: <<>> is null
    resizeListeners, \* "resize" listeners of the component on window, lines 85-86
    keydownListeners \* "keydown" listeners of the component on window, lines 194-196

vars == <<list, loading, error, filterCategory, filterFeeType, searchTerm,
          isMobileView, viewMode, currentPage, itemsPerPage, mounted,
          inflight, lastOutcome, lastStep, selectedEvent, resizeListeners,
          keydownListeners>>

\* the modal selection and the listeners on window
modalVars == <<selectedEvent, resizeListeners, keydownListeners>>

-----------------------------------------------------------------------------
(* Bounds of the model *)

MidLen == 12       \* length of the medium generated response
BigLen == 25       \* length of the long generated response
MaxPage == 4       \* cap on currentPage for the "next" button
MaxInFlight == 2   \* cap on overlapping getEventList() calls
MaxCount == 30
\* the largest number of pages of a list shown to the page control
MaxTotal == 9     \* filtered-set sizes of the paging specification

-----------------------------------------------------------------------------
(* Program constants *)

NULL == "null"
FREE_MARKER == "muryo"
ERR_EMPTY == "event data is empty or undefined"
ERR_FAIL == "failed to load the cultural event data"
\* the fee texts of the modal, lines 1087 and 1089 (transliterated)
FREE_MESSAGE == "muryo haengsa-imnida"
FEE_FALLBACK == "sangsehan yogeum jeongboga jegongdoeji anasseumnida."
\* a raw event_fee that is no string (undefined or null); event_fee is
\* optional in TourList, line 13
NO_FEE == "<undefined>"
MOBILE_WIDTH == 768
GRID_SIZE == 9
TABLE_SIZE == 10
INITIAL_SIZE == 10

-----------------------------------------------------------------------------
(* Inputs *)

Categories == {"music", "exhibit"}
Names == {"Jazz", "art JAM"}
Fees == {"", FREE_MARKER, "1000won"}
SearchTerms == {"", "jAz", "ART"}
FeeTypes == {"", "free", "paid"}
Widths == {500, 767, 768, 1024}

RawRecord(c, n, f) ==
    [category |-> c, address |-> "Jongno-gu", event_name |-> n,
     start_date |-> "2025-05-01", end_date |-> "2025-05-31", event_fee |-> f]

RawRecords == {RawRecord(c, n, f) : c \in Categories, n \in Names, f \in Fees}

\* the i-th record of a generated response: the fields cycle independently
\* and the name carries the index, so that all records differ
GenRaw(i) ==
    RawRecord(IF i % 2 = 0 THEN "music" ELSE "exhibit",
              (IF (i \div 2) % 2 = 0 THEN "Jazz " ELSE "art JAM ") \o ToString(i),
              IF i % 3 = 0 THEN "" ELSE IF i % 3 = 1 THEN FREE_MARKER ELSE "1000won")

GenResponse(n) == [i \in 1..n |-> GenRaw(i)]

\* the empty array, every array of one raw record, and two generated arrays
Responses ==
    {<<>>} \cup {<<e>> : e \in RawRecords}
        \cup {GenResponse(MidLen), GenResponse(BigLen)}

\* how the await of line 95 can end: a thrown error, undefined, or an array
Outcomes ==
    {[kind |-> "throw", data |-> <<>>], [kind |-> "undefined", data |-> <<>>]}
        \cup {[kind |-> "array", data |-> r] : r \in Responses}

-----------------------------------------------------------------------------
(* fetchEvents: normalization of the response, lines 98-106 *)

\* variant of IsFree: the empty fee is not taken as free
IsFree_MarkerOnly(event_fee) == event_fee = FREE_MARKER

IsFree(event_fee) == event_fee = "" \/ event_fee = FREE_MARKER

\* variant of Normalize: the raw fee string is not copied
Normalize_FeeDropped(e) ==
    [category |-> e.category,
     gu |-> e.address,
     event_name |-> e.event_name,
     start_date |-> e.start_date,
     end_date |-> e.end_date,
     is_free |-> IsFree(e.event_fee),
     event_fee |-> ""]

Normalize(e) ==
    [category |-> e.category,
     gu |-> e.address,
     event_name |-> e.event_name,
     start_date |-> e.start_date,
     end_date |-> e.end_date,
     is_free |-> IsFree(e.event_fee),
     event_fee |-> e.event_fee]

\* response.map(...)
NormalizeAll(response) == [i \in 1..Len(response) |-> Normalize(response[i])]

-----------------------------------------------------------------------------
(* filteredList, lines 140-154 *)

UpperCase == "ABCDEFGHIJKLMNOPQRSTUVWXYZ"
LowerCase == "abcdefghijklmnopqrstuvwxyz"

LowerOf ==
    [c \in {SubSeq(UpperCase, i, i) : i \in 1..Len(UpperCase)} |->
        LET i == CHOOSE j \in 1..Len(UpperCase) : SubSeq(UpperCase, j, j) = c
        IN  SubSeq(LowerCase, i, i)]

ToLowerChar(c) == IF c \in DOMAIN LowerOf THEN LowerOf[c] ELSE c

\* String.prototype.toLowerCase
RECURSIVE ToLowerCase(_)
ToLowerCase(s) ==
    IF Len(s) = 0 THEN ""
    ELSE ToLowerChar(SubSeq(s, 1, 1)) \o ToLowerCase(SubSeq(s, 2, Len(s)))

\* String.prototype.includes
Includes(s, t) ==
    \E i \in 0..(Len(s) - Len(t)) : SubSeq(s, i + 1, i + Len(t)) = t

MatchesCategory(item, category) ==
    IF category # "" THEN item.category = category ELSE TRUE

\* variant of MatchesFeeType: only "free" is tested, any other selection passes
MatchesFeeType_FreeOnly(item, feeType) ==
    IF feeType = "free" THEN item.is_free ELSE TRUE

MatchesFeeType(item, feeType) ==
    IF feeType # ""
    THEN IF feeType = "free" THEN item.is_free ELSE ~item.is_free
    ELSE TRUE

MatchesSearch(item, term) ==
    IF term # ""
    THEN Includes(ToLowerCase(item.event_name), ToLowerCase(term))
    ELSE TRUE

\* variant of Matches: the search criterion is combined by OR
Matches_Or(item, category, feeType, term) ==
    (MatchesCategory(item, category) /\ MatchesFeeType(item, feeType))
        \/ MatchesSearch(item, term)

Matches(item, category, feeType, term) ==
    MatchesCategory(item, category) /\ MatchesFeeType(item, feeType)
        /\ MatchesSearch(item, term)

FilteredList(l, category, feeType, term) ==
    SelectSeq(l, LAMBDA item : Matches(item, category, feeType, term))

filteredList == FilteredList(list, filterCategory, filterFeeType, searchTerm)

\* categories, line 201
categories == {list[i].category : i \in 1..Len(list)}

-----------------------------------------------------------------------------
(* Paging, lines 156-162 *)

Min(a, b) == IF a < b THEN a ELSE b
Max(a, b) == IF a > b THEN a ELSE b

\* Math.ceil(count / size) for count >= 0 and size > 0
TotalPages(count, size) ==
    IF count % size = 0 THEN count \div size ELSE count \div size + 1

StartIndex(page, size) == (page - 1) * size

\* Array.prototype.slice(start, end) for 0 <= start <= end: the bounds are
\* clamped to the length
Slice(s, start, end) == SubSeq(s, Min(start, Len(s)) + 1, Min(end, Len(s)))

\* variant of PaginatedList: the slice ends one record early
PaginatedList_ShortSlice(filtered, page, size) ==
    Slice(filtered, StartIndex(page, size), StartIndex(page, size) + size - 1)

PaginatedList(filtered, page, size) ==
    Slice(filtered, StartIndex(page, size), StartIndex(page, size) + size)

totalPages == TotalPages(Len(filteredList), itemsPerPage)
paginatedList == PaginatedList(filteredList, currentPage, itemsPerPage)

-----------------------------------------------------------------------------
(* Pagination: getVisiblePages, lines 442-470.  The "..." entry is Dots. *)

Dots == 0

\* variant of VisiblePages: the leading ellipsis is always pushed
VisiblePages_AlwaysDots(page, total, mobile) ==
    LET delta == IF mobile THEN 1 ELSE 2
        lo == Max(2, page - delta)
        hi == Min(total - 1, page + delta)
        range == [i \in 1..(IF hi >= lo THEN hi - lo + 1 ELSE 0) |-> lo + i - 1]
        head == <<1, Dots>>
        tail == IF page + delta < total - 1 THEN <<Dots, total>> ELSE <<total>>
    IN  head \o range \o tail

\* variant of VisiblePages: delta is 2 on every viewport
VisiblePages_WideDelta(page, total, mobile) ==
    LET delta == 2
        lo == Max(2, page - delta)
        hi == Min(total - 1, page + delta)
        range == [i \in 1..(IF hi >= lo THEN hi - lo + 1 ELSE 0) |-> lo + i - 1]
        head == IF page - delta > 2 THEN <<1, Dots>> ELSE <<1>>
        tail == IF page + delta < total - 1 THEN <<Dots, total>> ELSE <<total>>
    IN  head \o range \o tail

VisiblePages(page, total, mobile) ==
    LET delta == IF mobile THEN 1 ELSE 2
        lo == Max(2, page - delta)
        hi == Min(total - 1, page + delta)
        range == [i \in 1..(IF hi >= lo THEN hi - lo + 1 ELSE 0) |-> lo + i - 1]
        head == IF page - delta > 2 THEN <<1, Dots>> ELSE <<1>>
        tail == IF page + delta < total - 1 THEN <<Dots, total>> ELSE <<total>>
    IN  head \o range \o tail

\* the fee text of the modal, lines 1086-1089; "" and a missing fee are falsy
Falsy(fee) == fee = "" \/ fee = NO_FEE

\* variant of FeeDescription: a non-empty fee string is shown first
FeeDescription_RawFirst(e) ==
    IF ~Falsy(e.event_fee) THEN e.event_fee
    ELSE IF e.is_free THEN FREE_MESSAGE ELSE FEE_FALLBACK

FeeDescription(e) ==
    IF e.is_free THEN FREE_MESSAGE
    ELSE IF ~Falsy(e.event_fee) THEN e.event_fee ELSE FEE_FALLBACK

\* the layout of the content area, lines 951-955
ShowsGridLayout == viewMode = "grid" \/ isMobileView

\* what the content area shows, lines 921-958
ShowsSkeleton == loading /\ Len(list) = 0
ShowsPagination == ~ShowsSkeleton /\ Len(filteredList) # 0 /\ totalPages > 1

-----------------------------------------------------------------------------
(* State after construction: the useState initial values, lines 61-72 *)

Init ==
    /\ list = <<>>
    /\ loading = TRUE
    /\ error = NULL
    /\ filterCategory = ""
    /\ filterFeeType = ""
    /\ searchTerm = ""
    /\ isMobileView = FALSE
    /\ viewMode = "grid"
    /\ currentPage = 1
    /\ itemsPerPage = INITIAL_SIZE
    /\ mounted = FALSE
    /\ inflight = 0
    /\ lastOutcome = [kind |-> "none", data |-> <<>>]
    /\ lastStep = [op |-> "none", page |-> 1, mobile |-> FALSE]
    /\ selectedEvent = <<>>
    /\ resizeListeners = 0
    /\ keydownListeners = 0

-----------------------------------------------------------------------------
(* Pieces of handlers *)

\* history only: records the operation, the page it started from and
\* whether the viewport was narrow when it started
Did(op) == lastStep' = [op |-> op, page |-> currentPage, mobile |-> isMobileView]

\* variant of FetchStart: the error is not cleared
FetchStart_KeepError ==
    /\ inflight < MaxInFlight
    /\ loading' = TRUE
    /\ error' = error
    /\ inflight' = inflight + 1

\* fetchEvents up to the await, lines 91-95
FetchStart ==
    /\ inflight < MaxInFlight
    /\ loading' = TRUE
    /\ error' = NULL
    /\ inflight' = inflight + 1

\* variant of ModeAfterSizeCheck: a wide width brings the table mode back
ModeAfterSizeCheck_TableOnWide(w, mode) ==
    IF w < MOBILE_WIDTH THEN "grid" ELSE "table"

\* variant of ModeAfterSizeCheck: a narrow width does not force the grid mode
ModeAfterSizeCheck_Keep(w, mode) == mode

\* checkScreenSize, lines 76-82: the view mode after a size check at width w
ModeAfterSizeCheck(w, mode) == IF w < MOBILE_WIDTH THEN "grid" ELSE mode

\* page size chosen by the effect of lines 126-133
PageSizeOf(mode) == IF mode = "grid" THEN GRID_SIZE ELSE TABLE_SIZE

\* variant of ViewModeChange: the effect sets the page size only
ViewModeChange_SizeOnly(mode) ==
    /\ viewMode' = mode
    /\ IF mode # viewMode
       THEN itemsPerPage' = PageSizeOf(mode) /\ UNCHANGED currentPage
       ELSE UNCHANGED <<itemsPerPage, currentPage>>

\* setViewMode(mode) followed by the effect on [viewMode], lines 126-133,
\* which runs only when the value changed
ViewModeChange(mode) ==
    /\ viewMode' = mode
    /\ IF mode # viewMode
       THEN itemsPerPage' = PageSizeOf(mode) /\ currentPage' = 1
       ELSE UNCHANGED <<itemsPerPage, currentPage>>

\* variant of FilterChange: the effect of lines 135-137 is missing
FilterChange_NoReset(category, feeType, term) ==
    /\ filterCategory' = category
    /\ filterFeeType' = feeType
    /\ searchTerm' = term
    /\ UNCHANGED currentPage

\* the three filter setters followed by the effect on
\* [filterCategory, filterFeeType, searchTerm], lines 135-137, which runs
\* only when one of the values changed
FilterChange(category, feeType, term) ==
    /\ filterCategory' = category
    /\ filterFeeType' = feeType
    /\ searchTerm' = term
    /\ IF <<category, feeType, term>> # <<filterCategory, filterFeeType, searchTerm>>
       THEN currentPage' = 1
       ELSE UNCHANGED currentPage

-----------------------------------------------------------------------------
(* Operations *)

\* first commit: every effect runs once, lines 75-87, 122-124, 126-133, 135-137
Mount(w) ==
    /\ Did("Mount")
    /\ ~mounted
    /\ mounted' = TRUE
    /\ isMobileView' = (w < MOBILE_WIDTH)
    /\ viewMode' = ModeAfterSizeCheck(w, viewMode)
    /\ FetchStart
    /\ itemsPerPage' = PageSizeOf(viewMode')
    /\ currentPage' = 1
    /\ resizeListeners' = resizeListeners + 1
    /\ keydownListeners' = keydownListeners + 1
    /\ UNCHANGED <<list, filterCategory, filterFeeType, searchTerm, lastOutcome,
                   selectedEvent>>

\* resize listener, lines 76-85
Resize(w) ==
    /\ Did("Resize")
    /\ UNCHANGED modalVars
    /\ mounted
    /\ isMobileView' = (w < MOBILE_WIDTH)
    /\ ViewModeChange(ModeAfterSizeCheck(w, viewMode))
    /\ UNCHANGED <<list, loading, error, filterCategory, filterFeeType,
                   searchTerm, mounted, inflight, lastOutcome>>

\* view mode toggle, lines 739-764
SetViewMode(mode) ==
    /\ Did("SetViewMode")
    /\ UNCHANGED modalVars
    /\ mounted
    /\ ~isMobileView
    /\ ViewModeChange(mode)
    /\ UNCHANGED <<list, loading, error, filterCategory, filterFeeType,
                   searchTerm, isMobileView, mounted, inflight, lastOutcome>>

\* category select, lines 774-787: the options are "" and the categories
SetFilterCategory(category) ==
    /\ Did("SetFilterCategory")
    /\ UNCHANGED modalVars
    /\ mounted
    /\ category \in {""} \cup categories
    /\ FilterChange(category, filterFeeType, searchTerm)
    /\ UNCHANGED <<list, loading, error, isMobileView, viewMode, itemsPerPage,
                   mounted, inflight, lastOutcome>>

\* fee type select, lines 795-805
SetFilterFeeType(feeType) ==
    /\ Did("SetFilterFeeType")
    /\ UNCHANGED modalVars
    /\ mounted
    /\ FilterChange(filterCategory, feeType, searchTerm)
    /\ UNCHANGED <<list, loading, error, isMobileView, viewMode, itemsPerPage,
                   mounted, inflight, lastOutcome>>

\* search input, lines 814-822
SetSearchTerm(term) ==
    /\ Did("SetSearchTerm")
    /\ UNCHANGED modalVars
    /\ mounted
    /\ FilterChange(filterCategory, filterFeeType, term)
    /\ UNCHANGED <<list, loading, error, isMobileView, viewMode, itemsPerPage,
                   mounted, inflight, lastOutcome>>

\* reset button, lines 841-847
ResetFilters ==
    /\ Did("ResetFilters")
    /\ UNCHANGED modalVars
    /\ mounted
    /\ FilterChange("", "", "")
    /\ UNCHANGED <<list, loading, error, isMobileView, viewMode, itemsPerPage,
                   mounted, inflight, lastOutcome>>

\* variant of Refresh: the list is emptied when the fetch starts
Refresh_ClearsList ==
    /\ Did("Refresh")
    /\ UNCHANGED modalVars
    /\ mounted
    /\ ~loading
    /\ FetchStart
    /\ list' = <<>>
    /\ UNCHANGED <<filterCategory, filterFeeType, searchTerm, isMobileView,
                   viewMode, currentPage, itemsPerPage, mounted, lastOutcome>>

\* variant of Refresh: the button is not disabled while loading
Refresh_NotDisabled ==
    /\ Did("Refresh")
    /\ UNCHANGED modalVars
    /\ mounted
    /\ FetchStart
    /\ UNCHANGED <<list, filterCategory, filterFeeType, searchTerm, isMobileView,
                   viewMode, currentPage, itemsPerPage, mounted, lastOutcome>>

\* refresh button, lines 864-868: disabled while loading
Refresh ==
    /\ Did("Refresh")
    /\ UNCHANGED modalVars
    /\ mounted
    /\ ~loading
    /\ FetchStart
    /\ UNCHANGED <<list, filterCategory, filterFeeType, searchTerm, isMobileView,
                   viewMode, currentPage, itemsPerPage, mounted, lastOutcome>>

\* variant of Retry: the button is rendered whether or not an error is set
Retry_AlwaysShown ==
    /\ Did("Retry")
    /\ UNCHANGED modalVars
    /\ mounted
    /\ FetchStart
    /\ UNCHANGED <<list, filterCategory, filterFeeType, searchTerm, isMobileView,
                   viewMode, currentPage, itemsPerPage, mounted, lastOutcome>>

\* retry button of the error banner, lines 651-680
Retry ==
    /\ Did("Retry")
    /\ UNCHANGED modalVars
    /\ mounted
    /\ error # NULL
    /\ FetchStart
    /\ UNCHANGED <<list, filterCategory, filterFeeType, searchTerm, isMobileView,
                   viewMode, currentPage, itemsPerPage, mounted, lastOutcome>>

\* variant of ListAfter: the normalized response is appended to the list
ListAfter_Append(o, l) ==
    IF o.kind = "throw" THEN <<>>
    ELSE IF o.kind = "array" /\ Len(o.data) > 0 THEN l \o NormalizeAll(o.data)
    ELSE l

\* variant of ListAfter: the catch branch does not empty the list
ListAfter_KeepOnThrow(o, l) ==
    IF o.kind = "array" /\ Len(o.data) > 0 THEN NormalizeAll(o.data)
    ELSE l

\* list and error after the await of line 95 settled with outcome o, lines 97-115
ListAfter(o, l) ==
    IF o.kind = "throw" THEN <<>>
    ELSE IF o.kind = "array" /\ Len(o.data) > 0 THEN NormalizeAll(o.data)
    ELSE l

\* variant of ErrorAfter: the else branch of line 109 sets no error
ErrorAfter_SilentEmpty(o, e) ==
    IF o.kind = "throw" THEN ERR_FAIL ELSE e

ErrorAfter(o, e) ==
    IF o.kind = "throw" THEN ERR_FAIL
    ELSE IF o.kind = "array" /\ Len(o.data) > 0 THEN e
    ELSE ERR_EMPTY

\* variant of FetchComplete: loading is cleared in the try block, not in finally
FetchComplete_NoFinally(o) ==
    /\ Did("FetchComplete")
    /\ UNCHANGED modalVars
    /\ inflight > 0
    /\ inflight' = inflight - 1
    /\ lastOutcome' = o
    /\ list' = ListAfter(o, list)
    /\ error' = ErrorAfter(o, error)
    /\ loading' = IF o.kind = "throw" THEN loading ELSE FALSE
    /\ UNCHANGED <<filterCategory, filterFeeType, searchTerm, isMobileView,
                   viewMode, currentPage, itemsPerPage, mounted>>

\* variant of FetchComplete: a completion also closes the modal
FetchComplete_ClosesModal(o) ==
    /\ Did("FetchComplete")
    /\ UNCHANGED <<resizeListeners, keydownListeners>>
    /\ selectedEvent' = <<>>
    /\ inflight > 0
    /\ inflight' = inflight - 1
    /\ lastOutcome' = o
    /\ list' = ListAfter(o, list)
    /\ error' = ErrorAfter(o, error)
    /\ loading' = FALSE
    /\ UNCHANGED <<filterCategory, filterFeeType, searchTerm, isMobileView,
                   viewMode, currentPage, itemsPerPage, mounted>>

\* variant of FetchComplete: a completion resets the filters
FetchComplete_ResetsFilters(o) ==
    /\ Did("FetchComplete")
    /\ UNCHANGED modalVars
    /\ inflight > 0
    /\ inflight' = inflight - 1
    /\ lastOutcome' = o
    /\ list' = ListAfter(o, list)
    /\ error' = ErrorAfter(o, error)
    /\ loading' = FALSE
    /\ filterCategory' = ""
    /\ filterFeeType' = ""
    /\ searchTerm' = ""
    /\ UNCHANGED <<isMobileView, viewMode, currentPage, itemsPerPage, mounted>>

\* variant of FetchComplete: the error of a failure is set while loading stays
FetchComplete_ErrorWhileLoading(o) ==
    /\ Did("FetchComplete")
    /\ UNCHANGED modalVars
    /\ inflight > 0
    /\ inflight' = inflight - 1
    /\ lastOutcome' = o
    /\ list' = ListAfter(o, list)
    /\ error' = ErrorAfter(o, error)
    /\ loading' = (ErrorAfter(o, error) # NULL /\ loading)
    /\ UNCHANGED <<filterCategory, filterFeeType, searchTerm, isMobileView,
                   viewMode, currentPage, itemsPerPage, mounted>>

\* variant of FetchComplete: the catch branch calls fetchEvents again
FetchComplete_AutoRetry(o) ==
    /\ Did("FetchComplete")
    /\ UNCHANGED modalVars
    /\ inflight > 0
    /\ inflight' = IF o.kind = "throw" THEN inflight ELSE inflight - 1
    /\ lastOutcome' = o
    /\ list' = ListAfter(o, list)
    /\ error' = IF o.kind = "throw" THEN NULL ELSE ErrorAfter(o, error)
    /\ loading' = (o.kind = "throw")
    /\ UNCHANGED <<filterCategory, filterFeeType, searchTerm, isMobileView,
                   viewMode, currentPage, itemsPerPage, mounted>>

\* fetchEvents from the await on, lines 95-118
FetchComplete(o) ==
    /\ Did("FetchComplete")
    /\ UNCHANGED modalVars
    /\ inflight > 0
    /\ inflight' = inflight - 1
    /\ lastOutcome' = o
    /\ list' = ListAfter(o, list)
    /\ error' = ErrorAfter(o, error)
    /\ loading' = FALSE
    /\ UNCHANGED <<filterCategory, filterFeeType, searchTerm, isMobileView,
                   viewMode, currentPage, itemsPerPage, mounted>>

\* handlePageChange, lines 174-176, from the buttons of Pagination
PrevPage ==
    /\ Did("PrevPage")
    /\ UNCHANGED modalVars
    /\ mounted
    /\ ShowsPagination
    /\ currentPage # 1
    /\ currentPage' = currentPage - 1
    /\ UNCHANGED <<list, loading, error, filterCategory, filterFeeType, searchTerm,
                   isMobileView, viewMode, itemsPerPage, mounted, inflight,
                   lastOutcome>>

NextPage ==
    /\ Did("NextPage")
    /\ UNCHANGED modalVars
    /\ mounted
    /\ ShowsPagination
    /\ currentPage # totalPages
    /\ currentPage < MaxPage
    /\ currentPage' = currentPage + 1
    /\ UNCHANGED <<list, loading, error, filterCategory, filterFeeType, searchTerm,
                   isMobileView, viewMode, itemsPerPage, mounted, inflight,
                   lastOutcome>>

PageClick ==
    /\ Did("PageClick")
    /\ UNCHANGED modalVars
    /\ mounted
    /\ ShowsPagination
    /\ LET pages == VisiblePages(currentPage, totalPages, isMobileView)
       IN  \E i \in 1..Len(pages) :
               /\ pages[i] # Dots
               /\ currentPage' = pages[i]
    /\ UNCHANGED <<list, loading, error, filterCategory, filterFeeType, searchTerm,
                   isMobileView, viewMode, itemsPerPage, mounted, inflight,
                   lastOutcome>>

-----------------------------------------------------------------------------
(* The detail modal, the Escape key and the unmount *)

\* the content area shows the cards or the table rows, lines 921-958
ShowsList == ~ShowsSkeleton /\ Len(filteredList) # 0

\* variant of KeydownAfterRerun: the effect returns no cleanup
KeydownAfterRerun_NoCleanup(n) == n + 1

\* the effect on [selectedEvent], lines 187-198, runs again: the cleanup
\* removes the listener of the previous run, then a new one is added
KeydownAfterRerun(n) == (n - 1) + 1

\* setSelectedEvent(sel) followed by the effect on [selectedEvent], which
\* runs again only when the value changed
SelectionChange(sel) ==
    /\ selectedEvent' = sel
    /\ keydownListeners' =
          IF sel # selectedEvent THEN KeydownAfterRerun(keydownListeners)
          ELSE keydownListeners

\* closeModal, lines 170-172
closeModal == SelectionChange(<<>>)

\* handleEventClick, lines 165-167, from the i-th card or table row shown
handleEventClick ==
    /\ Did("handleEventClick")
    /\ mounted
    /\ ShowsList
    /\ LET shown == paginatedList
       IN  \E i \in 1..Len(shown) : SelectionChange(<<shown[i]>>)
    /\ UNCHANGED <<list, loading, error, filterCategory, filterFeeType, searchTerm,
                   isMobileView, viewMode, currentPage, itemsPerPage, mounted,
                   inflight, lastOutcome, resizeListeners>>

\* click on the backdrop of the modal, lines 964-967
BackdropClick ==
    /\ Did("BackdropClick")
    /\ mounted
    /\ selectedEvent # <<>>
    /\ closeModal
    /\ UNCHANGED <<list, loading, error, filterCategory, filterFeeType, searchTerm,
                   isMobileView, viewMode, currentPage, itemsPerPage, mounted,
                   inflight, lastOutcome, resizeListeners>>

\* variant of ModalBodyClick: without stopPropagation the click reaches the
\* backdrop
ModalBodyClick_Bubbles ==
    /\ Did("ModalBodyClick")
    /\ mounted
    /\ selectedEvent # <<>>
    /\ closeModal
    /\ UNCHANGED <<list, loading, error, filterCategory, filterFeeType, searchTerm,
                   isMobileView, viewMode, currentPage, itemsPerPage, mounted,
                   inflight, lastOutcome, resizeListeners>>

\* click inside the modal body, lines 968-971: stopPropagation keeps the
\* click from the backdrop
ModalBodyClick ==
    /\ Did("ModalBodyClick")
    /\ mounted
    /\ selectedEvent # <<>>
    /\ UNCHANGED <<list, loading, error, filterCategory, filterFeeType, searchTerm,
                   isMobileView, viewMode, currentPage, itemsPerPage, mounted,
                   inflight, lastOutcome, selectedEvent, resizeListeners,
                   keydownListeners>>

\* close button of the modal header, lines 987-991
CloseButton ==
    /\ Did("CloseButton")
    /\ mounted
    /\ selectedEvent # <<>>
    /\ closeModal
    /\ UNCHANGED <<list, loading, error, filterCategory, filterFeeType, searchTerm,
                   isMobileView, viewMode, currentPage, itemsPerPage, mounted,
                   inflight, lastOutcome, resizeListeners>>

\* confirm button of the modal footer, lines 1126-1131
ConfirmButton ==
    /\ Did("ConfirmButton")
    /\ mounted
    /\ selectedEvent # <<>>
    /\ closeModal
    /\ UNCHANGED <<list, loading, error, filterCategory, filterFeeType, searchTerm,
                   isMobileView, viewMode, currentPage, itemsPerPage, mounted,
                   inflight, lastOutcome, resizeListeners>>

\* handleEscKey, lines 188-192, called for an Escape keydown by each
\* registered listener
handleEscKey ==
    /\ Did("handleEscKey")
    /\ keydownListeners > 0
    /\ IF selectedEvent # <<>>
       THEN closeModal
       ELSE UNCHANGED <<selectedEvent, keydownListeners>>
    /\ UNCHANGED <<list, loading, error, filterCategory, filterFeeType, searchTerm,
                   isMobileView, viewMode, currentPage, itemsPerPage, mounted,
                   inflight, lastOutcome, resizeListeners>>

\* unmount: the cleanups of lines 86 and 195-197 run and the state of the
\* instance is discarded; a later mount starts from the useState values, and
\* a call still awaited by the discarded instance reaches no state
Unmount ==
    /\ Did("Unmount")
    /\ mounted
    /\ mounted' = FALSE
    /\ resizeListeners' = resizeListeners - 1
    /\ keydownListeners' = keydownListeners - 1
    /\ list' = <<>>
    /\ loading' = TRUE
    /\ error' = NULL
    /\ filterCategory' = ""
    /\ filterFeeType' = ""
    /\ searchTerm' = ""
    /\ isMobileView' = FALSE
    /\ viewMode' = "grid"
    /\ currentPage' = 1
    /\ itemsPerPage' = INITIAL_SIZE
    /\ inflight' = 0
    /\ lastOutcome' = [kind |-> "none", data |-> <<>>]
    /\ selectedEvent' = <<>>

Next ==
    \/ \E w \in Widths : Mount(w)
    \/ \E w \in Widths : Resize(w)
    \/ \E mode \in {"grid", "table"} : SetViewMode(mode)
    \/ \E category \in Categories \cup {""} : SetFilterCategory(category)
    \/ \E feeType \in FeeTypes : SetFilterFeeType(feeType)
    \/ \E term \in SearchTerms : SetSearchTerm(term)
    \/ ResetFilters
    \/ Refresh
    \/ Retry
    \/ \E o \in Outcomes : FetchComplete(o)
    \/ PrevPage
    \/ NextPage
    \/ PageClick

Spec == Init /\ [][Next]_vars

\* an awaited getEventList() call settles: it resolves or rejects
FairSpec == Spec /\ WF_vars(\E o \in Outcomes : FetchComplete(o))

-----------------------------------------------------------------------------
(* The whole page, with the modal and the unmount, over few responses *)

PageOutcomes ==
    {[kind |-> "throw", data |-> <<>>], [kind |-> "undefined", data |-> <<>>],
     [kind |-> "array", data |-> <<>>],
     [kind |-> "array", data |-> GenResponse(MidLen)]}

PageNext ==
    \/ \E w \in Widths : Mount(w)
    \/ \E w \in Widths : Resize(w)
    \/ \E mode \in {"grid", "table"} : SetViewMode(mode)
    \/ \E category \in Categories \cup {""} : SetFilterCategory(category)
    \/ \E feeType \in FeeTypes : SetFilterFeeType(feeType)
    \/ \E term \in SearchTerms : SetSearchTerm(term)
    \/ ResetFilters
    \/ Refresh
    \/ Retry
    \/ \E o \in PageOutcomes : FetchComplete(o)
    \/ PrevPage
    \/ NextPage
    \/ PageClick
    \/ handleEventClick
    \/ BackdropClick
    \/ ModalBodyClick
    \/ CloseButton
    \/ ConfirmButton
    \/ handleEscKey
    \/ Unmount

PageSpec == Init /\ [][PageNext]_vars

-----------------------------------------------------------------------------
(* Paging alone: a loaded list of every length up to MaxCount, either view
   mode and any fee-type filter, walked through its pages *)

PagingInit ==
    /\ \E n \in 0..MaxCount : list = NormalizeAll(GenResponse(n))
    /\ loading = FALSE
    /\ error = NULL
    /\ filterCategory = ""
    /\ filterFeeType \in FeeTypes
    /\ searchTerm = ""
    /\ isMobileView = FALSE
    /\ viewMode \in {"grid", "table"}
    /\ currentPage = 1
    /\ itemsPerPage = PageSizeOf(viewMode)
    /\ mounted = TRUE
    /\ inflight = 0
    /\ lastOutcome = [kind |-> "none", data |-> <<>>]
    /\ lastStep = [op |-> "none", page |-> 1, mobile |-> FALSE]
    /\ selectedEvent = <<>>
    /\ resizeListeners = 1
    /\ keydownListeners = 1

PagingNext == PrevPage \/ NextPage \/ PageClick

PagingSpec == PagingInit /\ [][PagingNext]_vars

(* The page control alone: a loaded list of up to MaxTotal grid pages on a
   narrow or a wide viewport, walked through its pages *)

VisibleInit ==
    /\ \E t \in 1..MaxTotal : list = NormalizeAll(GenResponse(t * GRID_SIZE))
    /\ loading = FALSE
    /\ error = NULL
    /\ filterCategory = ""
    /\ filterFeeType = ""
    /\ searchTerm = ""
    /\ isMobileView \in BOOLEAN
    /\ viewMode = "grid"
    /\ currentPage = 1
    /\ itemsPerPage = PageSizeOf(viewMode)
    /\ mounted = TRUE
    /\ inflight = 0
    /\ lastOutcome = [kind |-> "none", data |-> <<>>]
    /\ lastStep = [op |-> "none", page |-> 1, mobile |-> FALSE]
    /\ selectedEvent = <<>>
    /\ resizeListeners = 1
    /\ keydownListeners = 1

VisibleNext == PrevPage \/ NextPage \/ PageClick

VisibleSpec == VisibleInit /\ [][VisibleNext]_vars

(* The modal alone: a loaded list of one record, its fee a string or
   missing, opened and closed *)

ModalFees == Fees \cup {NO_FEE}

ModalInit ==
    /\ \E c \in Categories, n \in Names, f \in ModalFees :
           list = NormalizeAll(<<RawRecord(c, n, f)>>)
    /\ loading = FALSE
    /\ error = NULL
    /\ filterCategory = ""
    /\ filterFeeType = ""
    /\ searchTerm = ""
    /\ isMobileView \in BOOLEAN
    /\ viewMode = "grid"
    /\ currentPage = 1
    /\ itemsPerPage = PageSizeOf(viewMode)
    /\ mounted = TRUE
    /\ inflight = 0
    /\ lastOutcome = [kind |-> "none", data |-> <<>>]
    /\ lastStep = [op |-> "none", page |-> 1, mobile |-> FALSE]
    /\ selectedEvent = <<>>
    /\ resizeListeners = 1
    /\ keydownListeners = 1

ModalNext ==
    \/ handleEventClick
    \/ BackdropClick
    \/ ModalBodyClick
    \/ CloseButton
    \/ ConfirmButton
    \/ handleEscKey

ModalSpec == ModalInit /\ [][ModalNext]_vars

-----------------------------------------------------------------------------
(* Properties *)

\* the step is the settling of an awaited getEventList() call
Completes == inflight' = inflight - 1
\* the settled call returned a non-empty array
NonEmptyArray(o) == o.kind = "array" /\ Len(o.data) > 0
\* the settled call returned undefined or an empty array
EmptyOrUndefined(o) == o.kind = "undefined" \/ (o.kind = "array" /\ Len(o.data) = 0)

\* C1: in every state reached after a non-empty response, each record of the
\* working list has is_free true exactly when the raw event_fee of the record
\* at the same position is "" or the free marker
C1_IsFreeIffEmptyOrMarker ==
    NonEmptyArray(lastOutcome) =>
        /\ Len(list) = Len(lastOutcome.data)
        /\ \A i \in 1..Len(list) :
              /\ list[i].is_free \in BOOLEAN
              /\ list[i].is_free <=> lastOutcome.data[i].event_fee \in {"", FREE_MARKER}

C1_Witness ==
    /\ NonEmptyArray(lastOutcome)
    /\ \E i, j, k \in 1..Len(list) :
          /\ lastOutcome.data[i].event_fee = "" /\ list[i].is_free
          /\ lastOutcome.data[j].event_fee = FREE_MARKER /\ list[j].is_free
          /\ lastOutcome.data[k].event_fee = "1000won" /\ ~list[k].is_free

\* C2: a completion with a non-empty response replaces the working list by
\* one record per raw record, in the same order, each built from its raw
\* record alone (the address is held in the field gu)
C2_ListReplacedByNormalizedResponse ==
    [][(Completes /\ NonEmptyArray(lastOutcome')) =>
          /\ Len(list') = Len(lastOutcome'.data)
          /\ \A i \in 1..Len(list') :
                LET raw == lastOutcome'.data[i]
                IN  list'[i] = [category |-> raw.category,
                                gu |-> raw.address,
                                event_name |-> raw.event_name,
                                start_date |-> raw.start_date,
                                end_date |-> raw.end_date,
                                event_fee |-> raw.event_fee,
                                is_free |-> raw.event_fee \in {"", FREE_MARKER}]]_vars

\* page 3 exists only for the long response: the medium response has replaced it
C2_Witness ==
    /\ lastStep.op = "FetchComplete"
    /\ lastOutcome = [kind |-> "array", data |-> GenResponse(MidLen)]
    /\ currentPage = 3
    /\ Len(list) = MidLen
    /\ \A i \in 1..MidLen : list[i].event_name = GenRaw(i).event_name

\* C3 as claimed: a completion with an empty or undefined response sets the
\* data-unavailable message and leaves the working list empty
C3_EmptyResponseEmptiesList ==
    [][(Completes /\ EmptyOrUndefined(lastOutcome')) =>
          (error' = ERR_EMPTY /\ Len(list') = 0)]_vars

\* C4: a completion by a thrown failure sets the fetch-failure message and
\* empties the working list
C4_ThrowEmptiesList ==
    [][(Completes /\ lastOutcome'.kind = "throw") =>
          (error' = ERR_FAIL /\ list' = <<>>)]_vars

\* page 3 exists only for the long response: the failure came after it was loaded
C4_Witness ==
    /\ lastStep.op = "FetchComplete"
    /\ lastOutcome.kind = "throw"
    /\ currentPage = 3
    /\ error = ERR_FAIL
    /\ list = <<>>

\* C5: every completion leaves loading false, every fetch start sets it
\* true, and a fetch in flight leads to a state with loading false
C5_LoadingClearedOnCompletion ==
    /\ [][(Completes => ~loading') /\ (inflight' = inflight + 1 => loading')]_vars
    /\ (inflight > 0 ~> (inflight = 0 /\ ~loading))

C5_Witness ==
    /\ lastStep.op = "FetchComplete"
    /\ lastOutcome.kind = "throw"
    /\ inflight = 0
    /\ ~loading

\* the fetch state of the page
FetchState ==
    IF ~mounted THEN "Idle"
    ELSE IF loading THEN "Loading"
    ELSE IF error # NULL THEN "Error"
    ELSE "Loaded"

\* C6: Idle is left only by the mount fetch, into Loading; Loading is left
\* only by a completion, into Loaded (error null, list replaced by the
\* response) or Error (error set); Loaded and Error are left only by a
\* refresh or a retry, into Loading with the error cleared
C6_FetchStateMachine ==
    [][/\ (FetchState = "Idle" /\ FetchState' # "Idle") =>
              (FetchState' = "Loading" /\ lastStep'.op = "Mount"
                  /\ inflight' = inflight + 1)
       /\ (FetchState = "Loading" /\ FetchState' # "Loading") =>
              /\ Completes
              /\ FetchState' \in {"Loaded", "Error"}
              /\ FetchState' = "Loaded" =>
                    /\ NonEmptyArray(lastOutcome')
                    /\ list' = NormalizeAll(lastOutcome'.data)
       /\ Completes => (FetchState = "Loading" /\ FetchState' # "Loading")
       /\ (FetchState \in {"Loaded", "Error"} /\ FetchState' # FetchState) =>
              /\ FetchState' = "Loading"
              /\ lastStep'.op \in {"Refresh", "Retry"}
              /\ inflight' = inflight + 1
              /\ error' = NULL
       /\ FetchState' = "Loading" => error' = NULL
       /\ FetchState' = "Loaded" => error' = NULL
       /\ FetchState' = "Error" => error' \in {ERR_EMPTY, ERR_FAIL}]_vars

\* a retry from Error is loading again, the error cleared
C6_Witness ==
    /\ lastStep.op = "Retry"
    /\ lastOutcome.kind = "throw"
    /\ FetchState = "Loading"
    /\ error = NULL

RECURSIVE IsSubsequence(_, _)
IsSubsequence(a, b) ==
    IF Len(a) = 0 THEN TRUE
    ELSE IF Len(b) = 0 THEN FALSE
    ELSE IF Head(a) = Head(b) THEN IsSubsequence(Tail(a), Tail(b))
    ELSE IsSubsequence(a, Tail(b))

\* s contains t when case is ignored
ContainsIgnoringCase(s, t) ==
    \E i \in 1..(Len(s) - Len(t) + 1) :
        ToLowerCase(SubSeq(s, i, i + Len(t) - 1)) = ToLowerCase(t)

\* C7: the filtered set is drawn from the working list in its order, and
\* each of its records satisfies every active criterion
C7_FilteredSatisfiesAllActive ==
    /\ IsSubsequence(filteredList, list)
    /\ \A i \in 1..Len(filteredList) :
          LET item == filteredList[i]
          IN  /\ filterCategory # "" => item.category = filterCategory
              /\ filterFeeType = "free" => item.is_free
              /\ filterFeeType = "paid" => ~item.is_free
              /\ searchTerm # "" => ContainsIgnoringCase(item.event_name, searchTerm)

\* all three criteria active, some records pass and some do not
C7_Witness ==
    /\ filterCategory # ""
    /\ filterFeeType # ""
    /\ searchTerm = "jAz"
    /\ Len(filteredList) > 0
    /\ Len(filteredList) < Len(list)

\* C8: a step that changes the category, the fee type or the search term
\* ends on page 1
C8_FilterChangeResetsPage ==
    [][(\/ filterCategory' # filterCategory
        \/ filterFeeType' # filterFeeType
        \/ searchTerm' # searchTerm) => currentPage' = 1]_vars

C8_Witness ==
    /\ lastStep.op \in {"SetFilterCategory", "SetFilterFeeType", "SetSearchTerm",
                        "ResetFilters"}
    /\ lastStep.page > 1
    /\ currentPage = 1

\* C9: grid -> table sets the page size to 10, table -> grid sets it to 9,
\* and both end on page 1
C9_ViewModeSwitchSetsSizeAndPage ==
    [][/\ (viewMode = "grid" /\ viewMode' = "table") =>
              (itemsPerPage' = 10 /\ currentPage' = 1)
       /\ (viewMode = "table" /\ viewMode' = "grid") =>
              (itemsPerPage' = 9 /\ currentPage' = 1)]_vars

C9_Witness ==
    /\ lastStep.op = "SetViewMode"
    /\ lastStep.page > 1
    /\ viewMode = "table"
    /\ itemsPerPage = 10
    /\ currentPage = 1

\* the slices of pages 1..k, one after the other
RECURSIVE ConcatPages(_)
ConcatPages(k) ==
    IF k = 0 THEN <<>>
    ELSE ConcatPages(k - 1) \o PaginatedList(filteredList, k, itemsPerPage)

\* C10: the page count is the least k with k * size >= count, the slices of
\* pages 1..k put together are the filtered set, and 25 records in grid
\* mode give pages of 9, 9 and 7
C10_PagesPartitionFilteredSet ==
    LET count == Len(filteredList)
    IN  /\ itemsPerPage \in {9, 10}
        /\ totalPages * itemsPerPage >= count
        /\ totalPages > 0 => (totalPages - 1) * itemsPerPage < count
        /\ totalPages >= 0
        /\ ConcatPages(totalPages) = filteredList
        /\ \A i, j \in 1..count : i # j => filteredList[i] # filteredList[j]
        /\ (count = 25 /\ itemsPerPage = 9) =>
              /\ totalPages = 3
              /\ Len(PaginatedList(filteredList, 1, itemsPerPage)) = 9
              /\ Len(PaginatedList(filteredList, 2, itemsPerPage)) = 9
              /\ Len(PaginatedList(filteredList, 3, itemsPerPage)) = 7

C10_Witness ==
    /\ Len(filteredList) = 25
    /\ itemsPerPage = 9
    /\ currentPage = 3
    /\ Len(paginatedList) = 7

\* the operations that close the modal by a click
CloseClicks == {"BackdropClick", "CloseButton", "ConfirmButton"}

\* C11: a click on a card or row selects that record; the backdrop, the
\* close and confirm buttons and Escape (while a record is selected) clear
\* the selection; a click inside the modal body leaves it; at most one
\* record is selected
C11_ModalSelection ==
    [][/\ Len(selectedEvent') <= 1
       /\ lastStep'.op = "handleEventClick" =>
              /\ Len(selectedEvent') = 1
              /\ \E i \in 1..Len(paginatedList) : selectedEvent'[1] = paginatedList[i]
       /\ lastStep'.op \in CloseClicks =>
              (selectedEvent # <<>> /\ selectedEvent' = <<>>)
       /\ (lastStep'.op = "handleEscKey" /\ selectedEvent # <<>>) =>
              selectedEvent' = <<>>
       /\ lastStep'.op = "ModalBodyClick" =>
              (selectedEvent # <<>> /\ selectedEvent' = selectedEvent)]_vars

\* a record was selected by a click and a click inside the modal left it
C11_Witness ==
    /\ lastStep.op = "ModalBodyClick"
    /\ Len(selectedEvent) = 1
    /\ \E i \in 1..Len(paginatedList) : selectedEvent[1] = paginatedList[i]

\* C12: a fetch start and a fetch completion leave the selection unchanged,
\* and opening or closing the modal leaves loading, error, the working list
\* and the calls in flight unchanged
C12_ModalIndependentOfFetch ==
    [][/\ lastStep'.op \in {"Mount", "Refresh", "Retry", "FetchComplete"} =>
              selectedEvent' = selectedEvent
       /\ lastStep'.op \in CloseClicks \cup {"handleEventClick", "handleEscKey",
                                            "ModalBodyClick"} =>
              /\ loading' = loading
              /\ error' = error
              /\ list' = list
              /\ inflight' = inflight]_vars

\* the modal stayed open over a fetch that failed and emptied the list
C12_Witness ==
    /\ lastStep.op = "FetchComplete"
    /\ lastOutcome.kind = "throw"
    /\ selectedEvent # <<>>
    /\ list = <<>>

\* C18: while mounted the component has exactly one resize and one keydown
\* listener on window, never more than one, and none before the mount or
\* after the unmount
C18_ListenersRegisteredWhileMounted ==
    /\ resizeListeners \in {0, 1}
    /\ keydownListeners \in {0, 1}
    /\ mounted => (resizeListeners = 1 /\ keydownListeners = 1)
    /\ ~mounted => (resizeListeners = 0 /\ keydownListeners = 0)

C18_Witness ==
    /\ lastStep.op = "Unmount"
    /\ ~mounted
    /\ resizeListeners = 0
    /\ keydownListeners = 0

\* C13: in every state with a narrow viewport at the last size check the
\* view mode is grid and the card grid is the layout shown; a resize to
\* narrow in table mode ends in grid mode
C13_NarrowViewportForcesGrid ==
    [][/\ isMobileView' => (viewMode' = "grid" /\ ShowsGridLayout')
       /\ (lastStep'.op = "Resize" /\ isMobileView' /\ viewMode = "table") =>
              viewMode' = "grid"]_vars

\* the resize reset the page, as only a switch from table to grid does
C13_Witness ==
    /\ lastStep.op = "Resize"
    /\ lastStep.page > 1
    /\ currentPage = 1
    /\ isMobileView
    /\ viewMode = "grid"

\* C14 as claimed: nothing guards against overlap, a fetch can be started
\* from the page whenever one is in flight
C14_StartUnguardedWhileInFlight ==
    (mounted /\ inflight > 0) => (ENABLED Refresh \/ ENABLED Retry)

\* C14 as amended: while a fetch is in flight neither the refresh button nor
\* the retry button can start another, so at most one fetch is in flight
C14_NoOverlappingFetch ==
    /\ inflight <= 1
    /\ inflight = 1 => (loading /\ error = NULL /\ ~ENABLED Refresh /\ ~ENABLED Retry)

\* a manual refresh is in flight
C14_Witness ==
    /\ lastStep.op = "Refresh"
    /\ inflight = 1
    /\ loading

FetchCallers == {"Mount", "Refresh", "Retry"}

\* C16: a fetch is started only by the mount, the refresh button or the
\* retry button; a completion starts none and leaves loading false
C16_NoAutomaticRetry ==
    [][/\ inflight' > inflight => lastStep'.op \in FetchCallers
       /\ lastStep'.op = "FetchComplete" => (inflight' = inflight - 1 /\ ~loading')
       /\ lastStep'.op \notin FetchCallers \cup {"FetchComplete"} =>
              inflight' = inflight]_vars

\* an empty response on the mount fetch: the error is shown, nothing in flight
C16_Witness ==
    /\ lastStep.op = "FetchComplete"
    /\ lastOutcome = [kind |-> "array", data |-> <<>>]
    /\ error = ERR_EMPTY
    /\ list = <<>>
    /\ inflight = 0

visiblePages == VisiblePages(currentPage, totalPages, isMobileView)
\* the page numbers listed by the control
ListedPages(pages) == {pages[i] : i \in {j \in 1..Len(pages) : pages[j] # Dots}}
\* the distance between two pages
Distance(a, b) == IF a >= b THEN a - b ELSE b - a

\* C19: for a total of at least 2 pages and a current page within 1..total
\* the page control lists page 1, the last page and every page within delta
\* of the current page (delta 1 on a narrow viewport, 2 otherwise) and no
\* other page; every run of omitted pages is replaced by one ellipsis entry
\* standing between the listed pages around it
C19_VisiblePagesWindow ==
    (totalPages >= 2 /\ currentPage \in 1..totalPages) =>
        LET pages == visiblePages
            delta == IF isMobileView THEN 1 ELSE 2
        IN  /\ ListedPages(pages) =
                   {1, totalPages} \cup
                   {q \in 1..totalPages : Distance(q, currentPage) <= delta}
            /\ \A q \in (1..totalPages) \ ListedPages(pages) :
                   \E i \in 2..(Len(pages) - 1) :
                       /\ pages[i] = Dots
                       /\ pages[i - 1] # Dots /\ pages[i + 1] # Dots
                       /\ pages[i - 1] < q /\ q < pages[i + 1]
            /\ \A i \in 1..(Len(pages) - 1) :
                   (pages[i] # Dots /\ pages[i + 1] # Dots) =>
                       pages[i + 1] = pages[i] + 1

\* page 5 of 9 on a narrow viewport: both sides collapsed, delta 1
C19_Witness ==
    /\ isMobileView
    /\ totalPages = 9
    /\ currentPage = 5
    /\ visiblePages = <<1, Dots, 4, 5, 6, Dots, 9>>

\* C20 as claimed: the page size is 9 in grid mode and 10 in table mode in
\* every state, the initial state included
C20_PageSizeFollowsViewMode ==
    /\ viewMode = "grid" => itemsPerPage = 9
    /\ viewMode = "table" => itemsPerPage = 10

\* the records of l that pass the test
Passing(l, Test(_)) == SelectSeq(l, Test)

\* C21: the fee-type criterion passes every record for the empty selection,
\* exactly the records with is_free true for "free" and exactly those with
\* is_free false for "paid"; the filtered set is the records passing the fee,
\* category and search criteria together, the latter two passing every
\* record when unset
C21_FeeTypeCriterion ==
    LET feeOk(item) == \/ filterFeeType = ""
                       \/ (filterFeeType = "free" /\ item.is_free = TRUE)
                       \/ (filterFeeType = "paid" /\ item.is_free = FALSE)
        catOk(item) == filterCategory = "" \/ item.category = filterCategory
        termOk(item) == searchTerm = "" \/
                        ContainsIgnoringCase(item.event_name, searchTerm)
        allOk(item) == feeOk(item) /\ catOk(item) /\ termOk(item)
    IN  /\ \A i \in 1..Len(list) :
               MatchesFeeType(list[i], filterFeeType) <=> feeOk(list[i])
        /\ filteredList = Passing(list, allOk)
        /\ (filterCategory = "" /\ searchTerm = "") =>
               filteredList = Passing(list, feeOk)

\* "paid" selected on a list with free and paid records
C21_Witness ==
    /\ filterFeeType = "paid"
    /\ filterCategory = ""
    /\ searchTerm = ""
    /\ \E i, j \in 1..Len(list) : list[i].is_free /\ ~list[j].is_free
    /\ Len(filteredList) > 0
    /\ \A i \in 1..Len(filteredList) : ~filteredList[i].is_free

\* C23 as claimed: with a non-empty filtered set the current page lies in
\* 1..totalPages and the page slice is non-empty
C23_CurrentPageWithinTotal ==
    Len(filteredList) > 0 =>
        /\ currentPage \in 1..totalPages
        /\ Len(paginatedList) > 0

\* C24: while loading is true the error is null and the retry button is not
\* available; an error is set only by a step that leaves loading false
C24_NoErrorWhileLoading ==
    /\ [](loading => (error = NULL /\ ~ENABLED Retry))
    /\ [][(error' # error /\ error' # NULL) => (loading /\ ~loading')]_vars
    /\ [][(loading' /\ ~loading) => error' = NULL]_vars

\* the refresh button pressed while the banner of an undefined response is up
C24_Witness ==
    /\ lastStep.op = "Refresh"
    /\ lastOutcome.kind = "undefined"
    /\ loading
    /\ error = NULL

\* C25: a step that starts a fetch leaves the working list, the filters, the
\* current page and the view mode unchanged; loaded records stay shown, the
\* skeleton is shown exactly when loading is true and the list is empty
C25_FetchStartFrame ==
    [][inflight' > inflight =>
          /\ list' = list
          /\ filterCategory' = filterCategory
          /\ filterFeeType' = filterFeeType
          /\ searchTerm' = searchTerm
          /\ currentPage' = currentPage
          /\ viewMode' = viewMode
          /\ loading'
          /\ ShowsSkeleton' <=> (Len(list) = 0)]_vars

\* a refresh on page 3 of the long list: the records stay shown
C25_Witness ==
    /\ lastStep.op = "Refresh"
    /\ loading
    /\ Len(list) = BigLen
    /\ currentPage = 3
    /\ ~ShowsSkeleton
    /\ Len(paginatedList) > 0

\* C26: a resize from narrow to wide leaves the view mode (grid) unchanged;
\* the view mode becomes table only by a click on the table toggle, which
\* exists on a wide viewport only
C26_WideningKeepsViewMode ==
    [][/\ (lastStep'.op = "Resize" /\ isMobileView /\ ~isMobileView') =>
              (viewMode = "grid" /\ viewMode' = viewMode)
       /\ (viewMode # "table" /\ viewMode' = "table") =>
              (lastStep'.op = "SetViewMode" /\ ~isMobileView)]_vars

\* the viewport was widened and the mode is still grid
C26_Witness ==
    /\ lastStep.op = "Resize"
    /\ lastStep.mobile
    /\ ~isMobileView
    /\ viewMode = "grid"
    /\ itemsPerPage = GRID_SIZE

\* C22: for the selected record the fee text of the modal is the free
\* message when is_free is true, otherwise the raw fee string when it is
\* non-empty, otherwise the fallback placeholder
C22_FeeDescriptionCases ==
    selectedEvent # <<>> =>
        LET e == selectedEvent[1]
            d == FeeDescription(e)
        IN  /\ e.is_free = TRUE => d = FREE_MESSAGE
            /\ (e.is_free = FALSE /\ e.event_fee \notin {"", NO_FEE}) =>
                   d = e.event_fee
            /\ (e.is_free = FALSE /\ e.event_fee \in {"", NO_FEE}) =>
                   d = FEE_FALLBACK

\* the record without a fee is open: the placeholder is shown
C22_Witness ==
    /\ selectedEvent # <<>>
    /\ selectedEvent[1].event_fee = NO_FEE
    /\ ~selectedEvent[1].is_free
    /\ FeeDescription(selectedEvent[1]) = FEE_FALLBACK

\* C27: for a total of at least 2 pages and a current page within 1..total
\* the listed page numbers are strictly increasing, and an ellipsis stands
\* between two listed numbers with at least one page omitted between them
C27_VisiblePagesIncreasing ==
    (totalPages >= 2 /\ currentPage \in 1..totalPages) =>
        LET pages == visiblePages
            numbers == SelectSeq(pages, LAMBDA p : p # Dots)
        IN  /\ \A i \in 1..(Len(numbers) - 1) : numbers[i] < numbers[i + 1]
            /\ \A i \in 1..Len(pages) :
                   pages[i] = Dots =>
                       /\ 1 < i /\ i < Len(pages)
                       /\ pages[i - 1] # Dots /\ pages[i + 1] # Dots
                       /\ pages[i + 1] - pages[i - 1] >= 2

\* page 4 of 9 on a wide viewport: no ellipsis on the left, one on the right
C27_Witness ==
    /\ ~isMobileView
    /\ totalPages = 9
    /\ currentPage = 4
    /\ visiblePages = <<1, 2, 3, 4, 5, 6, Dots, 9>>

\* C28: for a record normalized from a raw record whose event_fee is a
\* string the fallback placeholder is never shown: is_free false implies a
\* non-empty fee string, the fee text is the free message or the raw string
C28_NoFallbackForStringFee ==
    \A i \in 1..Len(list) :
        list[i].event_fee # NO_FEE =>
            /\ list[i].is_free = FALSE => list[i].event_fee # ""
            /\ FeeDescription(list[i]) # FEE_FALLBACK
            /\ FeeDescription(list[i]) \in {FREE_MESSAGE, list[i].event_fee}
            /\ selectedEvent = <<list[i]>> =>
                   FeeDescription(selectedEvent[1]) # FEE_FALLBACK

\* the record with the empty fee string is open: the free message is shown
C28_Witness ==
    /\ selectedEvent # <<>>
    /\ selectedEvent[1].event_fee = ""
    /\ selectedEvent[1].is_free
    /\ FeeDescription(selectedEvent[1]) = FREE_MESSAGE

\* C29: a fetch completion leaves the selected category, the selected fee
\* type, the search term and the view mode unchanged
C29_CompletionKeepsFilters ==
    [][Completes =>
          /\ filterCategory' = filterCategory
          /\ filterFeeType' = filterFeeType
          /\ searchTerm' = searchTerm
          /\ viewMode' = viewMode]_vars

\* after a refresh the selected category is one no record of the new list
\* has: the filtered set is empty, the working list is not
C29_Witness ==
    /\ lastStep.op = "FetchComplete"
    /\ filterCategory # ""
    /\ filterCategory \notin categories
    /\ Len(list) > 0
    /\ Len(filteredList) = 0

====
